---- MODULE Spec2Model ----
(***************************************************************************)
(* Model of the swapctl(2) binding in src/main.rs: the low-level wrapper   *)
(* swapctl_cmd, the three public operations built on it                    *)
(* (swapctl_get_num_devices, swapctl_list, swapctl_add) and the fixed      *)
(* sequence run by main.  The kernel behind the extern "C" declaration is  *)
(* the environment: its reply to a control call is a nondeterministic      *)
(* choice over sample values of the declared i32 return type.              *)
(***************************************************************************)
EXTENDS Integers, Sequences, FiniteSets, TLC

VARIABLES
    swapfiles,  \* kernel: the set of active swap areas
    errno,      \* the platform's last error code
    ncalls,     \* number of control calls the kernel has received
    lastcall,   \* the most recent control call the kernel received
    ret,        \* the most recent operation of the binding and its result
    bufs,       \* the path buffers p1, p2, p3 of the latest swapctl_list
    pc,         \* main: position
    r,          \* main: result of the raw SC_GETNSWP call
    n,          \* main: count returned by swapctl_list
    lr,         \* main: table returned by swapctl_list
    i,          \* main: loop index
    out,        \* main: lines printed so far
    derefs      \* main: reads made through a descriptor's ste_path pointer

vars == <<swapfiles, errno, ncalls, lastcall, ret, bufs, pc, r, n, lr, i, out, derefs>>

-----------------------------------------------------------------------------
(* Bounds of the model *)

MaxCalls == 2       \* control calls issued in one behaviour
MaxDevices == 4     \* swap areas active on the system at start

(* swapctl(2) commands *)
SC_ADD == 1
SC_LIST == 2
SC_REMOVE == 3
SC_GETNSWP == 4
SC_AINFO == 5

N_SWAPENTS == 3

-----------------------------------------------------------------------------
(* Machine integers.  An i32 is an integer in MinI32..MaxI32.  A u32 is    *)
(* held as its two 16-bit halves, so that values up to 2^32 - 1 can be     *)
(* written down.                                                           *)

MaxI32 == (2^30 - 1) + 2^30
MinI32 == (-MaxI32) - 1
Half == 2^16

U32(hi, lo) == [hi |-> hi, lo |-> lo]

\* `res as u32`: reinterpretation of the two's complement bits of an i32
AsU32_abs(res) ==
    IF res >= 0 THEN U32(res \div Half, res % Half)
    ELSE IF res = MinI32 THEN U32(Half \div 2, 0)
    ELSE U32((-res) \div Half, (-res) % Half)
AsU32(res) ==
    IF res >= 0 THEN U32(res \div Half, res % Half)
    ELSE LET t == res - MinI32      \* the low 31 bits
         IN U32((t \div Half) + (Half \div 2), t % Half)

\* `n_devices as usize`: zero extension, the value is kept
AsUsize(u) == u

\* i < n for a small index i and a usize n
IndexBelow(idx, u) == u.hi > 0 \/ idx < u.lo

-----------------------------------------------------------------------------
(* Results *)

Ok(v) == [kind |-> "ok", val |-> v]
Err(e) == [kind |-> "err", errno |-> e]
Panic(m) == [kind |-> "panic", msg |-> m]

NoArg == [null |-> TRUE]
NoCall == [cmd |-> 0, arg |-> NoArg, res |-> 0, none |-> TRUE]

-----------------------------------------------------------------------------
(* Inputs *)

RetVals == {MinI32, -2, -1, 0, 3, 4, MaxI32}
CmdVals == {MinI32, -1, 0, 1, 3, 5, 6, MaxI32}
Errnos == {"EPERM", "ENOMEM"}
\* a reply leaves an error code behind only when it is the failure value
Replies == { rep \in [r : RetVals, e : Errnos \cup {"none"}] : (rep.r = -1) <=> (rep.e # "none") }

\* paths as byte strings; 0 is the null byte
Names == { <<>>, <<47, 97>>, <<47, 0, 97>> }
StartVals == {0, 513}
LenVals == {1024, 1000}

\* the areas active on a system with k devices
SysAreas(k) == { [sr_name |-> <<47, 48 + j>>, sr_start |-> 0, sr_length |-> 1024] : j \in 1..k }

-----------------------------------------------------------------------------
(* C strings *)

HasNul(name) == \E k \in 1..Len(name) : name[k] = 0

\* std::ffi::CString::new: an error when the bytes hold a null byte, else
\* the bytes followed by the terminating null byte
CStringNew_unchecked(name) == Ok(Append(name, 0))
CStringNew(name) ==
    IF HasNul(name) THEN Err("NulError") ELSE Ok(Append(name, 0))

\* what a reader of a C string sees: the bytes before the first null byte
RECURSIVE CStrRead(_)
CStrRead(bytes) ==
    IF bytes = <<>> \/ Head(bytes) = 0 THEN <<>>
    ELSE <<Head(bytes)>> \o CStrRead(Tail(bytes))

-----------------------------------------------------------------------------
(* The kernel side of swapctl(2).  rep is the kernel's reply: the value    *)
(* it returns and the error code it leaves behind when that value is -1.   *)

Min(a, b) == IF a < b THEN a ELSE b
Mult512(x) == x % 512 = 0

IsSwapres(arg) == "sr_name" \in DOMAIN arg
IsSwaptbl(arg) == "swt_ent" \in DOMAIN arg

\* the area a swapres names
AreaOf(arg) == [sr_name |-> CStrRead(arg.sr_name),
                sr_start |-> arg.sr_start, sr_length |-> arg.sr_length]

\* re-adding an active area fails
AlreadyActive(cmd, arg) == cmd = SC_ADD /\ IsSwapres(arg) /\ AreaOf(arg) \in swapfiles

\* the slots of the caller's table the kernel fills in on SC_LIST
Filled(arg, res) == IF res < 0 THEN 0 ELSE Min(res, arg.swt_n)

KernelFill(arg, res) ==
    [arg EXCEPT !.swt_ent = [j \in DOMAIN arg.swt_ent |->
        IF j <= Filled(arg, res)
        THEN [arg.swt_ent[j] EXCEPT !.ste_length = 1024, !.ste_pages = 2, !.ste_free = 2]
        ELSE arg.swt_ent[j]]]

swapctl(cmd, arg, rep) ==
    LET res == IF AlreadyActive(cmd, arg) THEN -1 ELSE rep.r
        e == IF AlreadyActive(cmd, arg) THEN "EEXIST" ELSE rep.e
    IN [res |-> res,
        errno |-> IF res = -1 THEN e ELSE errno,
        swapfiles |-> IF cmd = SC_ADD /\ IsSwapres(arg) /\ res = 0
                      THEN swapfiles \cup {AreaOf(arg)} ELSE swapfiles,
        arg |-> IF cmd = SC_LIST /\ IsSwaptbl(arg) /\ res # -1
                THEN KernelFill(arg, res) ELSE arg,
        ncalls |-> ncalls + 1,
        lastcall |-> [cmd |-> cmd, arg |-> arg, res |-> res, none |-> FALSE]]

\* no control call: the kernel's state is as it was
NoKernel(arg) ==
    [res |-> 0, errno |-> errno, swapfiles |-> swapfiles, arg |-> arg,
     ncalls |-> ncalls, lastcall |-> lastcall]

-----------------------------------------------------------------------------
(* The binding.  Each operator gives the operation's result (res) and the  *)
(* state the kernel is left in (k).                                        *)

ValidCmd(cmd) == cmd >= 0 /\ cmd <= SC_AINFO

swapctl_cmd(cmd, arg, rep) ==
    IF ~ValidCmd(cmd)
    THEN [res |-> Panic("invalid swapctl cmd"), k |-> NoKernel(arg)]
    ELSE LET k == swapctl(cmd, arg, rep)
         IN [res |-> IF k.res = -1 THEN Err(k.errno) ELSE Ok(AsU32(k.res)), k |-> k]

swapctl_get_num_devices_or0(rep) ==
    LET c == swapctl_cmd(SC_GETNSWP, NoArg, rep)
    IN IF c.res.kind = "err" THEN [c EXCEPT !.res = Ok(U32(0, 0))] ELSE c
swapctl_get_num_devices(rep) == swapctl_cmd(SC_GETNSWP, NoArg, rep)

DefaultSwapent == [ste_path |-> 0, ste_start |-> 0, ste_length |-> 0,
                   ste_pages |-> 0, ste_free |-> 0, ste_flags |-> 0]

\* The buffers p1, p2, p3 are locals of swapctl_list and ste_path j points
\* at p_j.  bufs is the state of the buffers when swapctl_list returns:
\* its frame is gone, what the kernel wrote is left behind in it.
swapctl_list(rep) ==
    LET entries == [j \in 1..N_SWAPENTS |-> [DefaultSwapent EXCEPT !.ste_path = j]]
        list_req == [swt_n |-> N_SWAPENTS, swt_ent |-> entries]
        c == swapctl_cmd(SC_LIST, list_req, rep)
        dead == [j \in 1..N_SWAPENTS |->
                    [live |-> FALSE,
                     data |-> IF c.res.kind = "ok" /\ j <= Filled(list_req, c.k.res)
                              THEN "path" ELSE "zero"]]
    IN IF c.res.kind # "ok" THEN [res |-> c.res, k |-> c.k, bufs |-> dead]
       ELSE [res |-> Ok([n |-> AsUsize(c.res.val), tbl |-> c.k.arg]),
             k |-> c.k, bufs |-> dead]

swapctl_add_nolen(name, start, length, rep) ==
    IF start % 512 # 0
    THEN [res |-> Panic("start not divisible by 512"), k |-> NoKernel(NoArg)]
    ELSE LET nm == CStringNew(name)
         IN IF nm.kind = "err"
            THEN [res |-> Panic("unwrap: NulError"), k |-> NoKernel(NoArg)]
            ELSE LET add_req == [sr_name |-> nm.val, sr_start |-> start, sr_length |-> length]
                     c == swapctl_cmd(SC_ADD, add_req, rep)
                 IN IF c.res.kind # "ok" THEN c
                    ELSE IF c.res.val # U32(0, 0)
                    THEN [res |-> Panic("assertion failed: res == 0"), k |-> c.k]
                    ELSE [res |-> Ok("unit"), k |-> c.k]
swapctl_add_swallow(name, start, length, rep) ==
    IF start % 512 # 0
    THEN [res |-> Panic("start not divisible by 512"), k |-> NoKernel(NoArg)]
    ELSE IF length % 512 # 0
    THEN [res |-> Panic("length not divisible by 512"), k |-> NoKernel(NoArg)]
    ELSE LET nm == CStringNew(name)
         IN IF nm.kind = "err"
            THEN [res |-> Panic("unwrap: NulError"), k |-> NoKernel(NoArg)]
            ELSE LET add_req == [sr_name |-> nm.val, sr_start |-> start, sr_length |-> length]
                     c == swapctl_cmd(SC_ADD, add_req, rep)
                 IN IF c.res.kind = "panic" THEN c
                    ELSE [res |-> Ok("unit"), k |-> c.k]
swapctl_add(name, start, length, rep) ==
    IF start % 512 # 0
    THEN [res |-> Panic("start not divisible by 512"), k |-> NoKernel(NoArg)]
    ELSE IF length % 512 # 0
    THEN [res |-> Panic("length not divisible by 512"), k |-> NoKernel(NoArg)]
    ELSE LET nm == CStringNew(name)
         IN IF nm.kind = "err"
            THEN [res |-> Panic("unwrap: NulError"), k |-> NoKernel(NoArg)]
            ELSE LET add_req == [sr_name |-> nm.val, sr_start |-> start, sr_length |-> length]
                     c == swapctl_cmd(SC_ADD, add_req, rep)
                 IN IF c.res.kind # "ok" THEN c
                    ELSE IF c.res.val # U32(0, 0)
                    THEN [res |-> Panic("assertion failed: res == 0"), k |-> c.k]
                    ELSE [res |-> Ok("unit"), k |-> c.k]

-----------------------------------------------------------------------------
(* State *)

NoRet == [op |-> "none", cmd |-> 0, name |-> <<>>, start |-> 0, length |-> 0,
          calls |-> 0, kres |-> 0, before |-> {}, res |-> Ok("unit")]

EmptyTable == [swt_n |-> 0, swt_ent |-> [j \in 1..N_SWAPENTS |-> DefaultSwapent]]

Init ==
    /\ swapfiles \in { SysAreas(k) : k \in 0..MaxDevices }
    /\ errno = "none"
    /\ ncalls = 0
    /\ lastcall = NoCall
    /\ ret = NoRet
    /\ bufs = [j \in 1..N_SWAPENTS |-> [live |-> FALSE, data |-> "none"]]
    /\ pc = "getnswp"
    /\ r = 0
    /\ n = U32(0, 0)
    /\ lr = EmptyTable
    /\ i = 0
    /\ out = <<>>
    /\ derefs = {}

mainvars == <<pc, r, n, lr, i, out, derefs>>

\* the kernel is left as the operation left it
Kernel(k) ==
    /\ swapfiles' = k.swapfiles
    /\ errno' = k.errno
    /\ ncalls' = k.ncalls
    /\ lastcall' = k.lastcall

\* the operation and its result, as its caller sees them
Returned(desc, c) ==
    ret' = [desc EXCEPT !.calls = c.k.ncalls - ncalls, !.kres = c.k.res,
                        !.before = swapfiles, !.res = c.res]

-----------------------------------------------------------------------------
(* The low-level wrapper on its own: any command code, any reply *)

CallCmd ==
    /\ ncalls < MaxCalls
    /\ \E cmd \in CmdVals, rep \in Replies :
        \E c \in {swapctl_cmd(cmd, NoArg, rep)} :
           /\ Kernel(c.k)
           /\ Returned([NoRet EXCEPT !.op = "cmd", !.cmd = cmd], c)
    /\ UNCHANGED <<bufs, mainvars>>

SpecCmd == Init /\ [][CallCmd]_vars

-----------------------------------------------------------------------------
(* A caller of the binding: any public operation, any arguments *)

CallGetNumDevices ==
    /\ ncalls < MaxCalls
    /\ \E rep \in Replies :
        \E c \in {swapctl_get_num_devices(rep)} :
           /\ Kernel(c.k)
           /\ Returned([NoRet EXCEPT !.op = "get_num_devices", !.cmd = SC_GETNSWP], c)
    /\ UNCHANGED <<bufs, mainvars>>

CallList ==
    /\ ncalls < MaxCalls
    /\ \E rep \in Replies :
        \E c \in {swapctl_list(rep)} :
           /\ Kernel(c.k)
           /\ Returned([NoRet EXCEPT !.op = "list", !.cmd = SC_LIST], c)
           /\ bufs' = c.bufs
    /\ UNCHANGED mainvars

CallAdd ==
    /\ ncalls < MaxCalls
    /\ \E name \in Names, start \in StartVals, length \in LenVals, rep \in Replies :
        \E c \in {swapctl_add(name, start, length, rep)} :
           /\ Kernel(c.k)
           /\ Returned([NoRet EXCEPT !.op = "add", !.cmd = SC_ADD, !.name = name,
                                     !.start = start, !.length = length], c)
    /\ UNCHANGED <<bufs, mainvars>>

Next == CallGetNumDevices \/ CallList \/ CallAdd

Spec == Init /\ [][Next]_vars

-----------------------------------------------------------------------------
(* main *)

Line(tag, val) == [tag |-> tag, val |-> val]

\* what a read through a pointer to the buffer b gives: the bytes of a live
\* buffer; of a dead one, whatever the frame holds by then, or a fault
ReadOutcomes(b) == IF b.live THEN {b.data} ELSE {b.data, "garbage", "fault"}

MainGetnswp ==
    /\ pc = "getnswp"
    /\ \E rep \in Replies :
        \E k \in {swapctl(SC_GETNSWP, NoArg, rep)} :
           /\ Kernel(k)
           /\ r' = k.res
           /\ out' = Append(out, Line("getnswp", k.res))
    /\ pc' = "list"
    /\ UNCHANGED <<ret, bufs, n, lr, i, derefs>>

MainList_continue ==
    /\ pc = "list"
    /\ \E rep \in Replies :
        \E c \in {swapctl_list(rep)} :
           /\ Kernel(c.k)
           /\ bufs' = c.bufs
           /\ IF c.res.kind = "ok"
              THEN /\ n' = c.res.val.n
                   /\ lr' = c.res.val.tbl
                   /\ out' = Append(out, Line("listswap", c.res.val.n))
              ELSE /\ out' = Append(out, Line("failed", c.res))
                   /\ UNCHANGED <<n, lr>>
           /\ pc' = "loop"
    /\ UNCHANGED <<ret, r, i, derefs>>
MainList ==
    /\ pc = "list"
    /\ \E rep \in Replies :
        \E c \in {swapctl_list(rep)} :
           /\ Kernel(c.k)
           /\ bufs' = c.bufs
           /\ IF c.res.kind = "ok"
              THEN /\ n' = c.res.val.n
                   /\ lr' = c.res.val.tbl
                   /\ out' = Append(out, Line("listswap", c.res.val.n))
                   /\ pc' = "loop"
              ELSE /\ out' = Append(out, Line("panic", c.res))
                   /\ pc' = "panicked"
                   /\ UNCHANGED <<n, lr>>
    /\ UNCHANGED <<ret, r, i, derefs>>

MainLoop ==
    /\ pc = "loop"
    /\ IndexBelow(i, n)
    /\ IF i >= N_SWAPENTS
       THEN /\ pc' = "panicked"
            /\ out' = Append(out, Line("panic", Panic("index out of bounds")))
            /\ UNCHANGED <<i, derefs>>
       ELSE LET e == lr.swt_ent[i + 1]
                b == bufs[e.ste_path]
            IN /\ derefs' = derefs \cup {[slot |-> i, buf |-> e.ste_path, live |-> b.live]}
               /\ \E v \in ReadOutcomes(b) :
                    IF v = "fault"
                    THEN pc' = "crashed" /\ UNCHANGED <<i, out>>
                    ELSE /\ out' = Append(out, Line("swapfile", v))
                         /\ i' = i + 1
                         /\ pc' = "loop"
    /\ UNCHANGED <<swapfiles, errno, ncalls, lastcall, ret, bufs, r, n, lr>>

\* the final println; the call of swapctl_add before it is commented out
MainPrintAdd ==
    /\ pc = "loop"
    /\ ~IndexBelow(i, n)
    /\ out' = Append(out, Line("add", "unit"))
    /\ pc' = "done"
    /\ UNCHANGED <<swapfiles, errno, ncalls, lastcall, ret, bufs, r, n, lr, i, derefs>>

NextMain == MainGetnswp \/ MainList \/ MainLoop \/ MainPrintAdd

SpecMain == Init /\ [][NextMain]_vars

-----------------------------------------------------------------------------
(* Properties *)

\* a u32 has the value of the integer x
U32Equals(u, x) == u.hi < Half \div 2 /\ u.hi * Half + u.lo = x
\* a u32 has the value x + 2^32, for a negative x: its complement is -x - 1
U32EqualsWrapped(u, x) ==
    /\ x < 0
    /\ u.hi >= Half \div 2
    /\ ((Half - 1) - u.hi) * Half + ((Half - 1) - u.lo) = -(x + 1)

AlignPanics == {"start not divisible by 512", "length not divisible by 512"}

\* C1: a successful swapctl_list never reports a count above N_SWAPENTS,
\* whatever value the kernel returned for SC_LIST.
C1_ListCountWithinCapacity ==
    (ret.op = "list" /\ ret.res.kind = "ok")
        => ret.res.val.n.hi = 0 /\ ret.res.val.n.lo <= N_SWAPENTS

\* C2: when more than N_SWAPENTS swap areas are active, swapctl_list does
\* not return a plain successful result; the result (a count and a table)
\* has no other place for a signal, and no warning is printed.
C2_TruncationSignalled ==
    (ret.op = "list" /\ Cardinality(ret.before) > N_SWAPENTS)
        => \/ ret.res.kind # "ok"
           \/ \E k \in 1..Len(out) : out[k].tag = "warning"

\* C3: swapctl_add with start and length both multiples of 512 passes the
\* two alignment assertions and, the path being encodable, issues the
\* SC_ADD control call with those values; with start or length not a
\* multiple of 512 it panics on the assertion and has issued no control call.
C3_AddAlignment ==
    ret.op = "add" =>
        IF Mult512(ret.start) /\ Mult512(ret.length)
        THEN /\ ~(ret.res.kind = "panic" /\ ret.res.msg \in AlignPanics)
             /\ ~HasNul(ret.name) =>
                    /\ ret.calls = 1
                    /\ lastcall.cmd = SC_ADD
                    /\ lastcall.arg.sr_start = ret.start
                    /\ lastcall.arg.sr_length = ret.length
        ELSE /\ ret.res.kind = "panic"
             /\ ret.res.msg \in AlignPanics
             /\ ret.calls = 0

\* a rejected add that follows an accepted one: the kernel has seen only
\* the accepted one
C3_Witness ==
    /\ ret.op = "add"
    /\ Mult512(ret.start) /\ ~Mult512(ret.length)
    /\ ret.res.kind = "panic" /\ ret.calls = 0
    /\ ncalls = 1 /\ lastcall.cmd = SC_ADD /\ IsSwapres(lastcall.arg)
    /\ Mult512(lastcall.arg.sr_length)

\* C4 as stated: swapctl_add with an empty path, or a path with an embedded
\* null byte, and aligned start and length, is rejected before any control
\* call.
C4_Original ==
    (/\ ret.op = "add"
     /\ Mult512(ret.start) /\ Mult512(ret.length)
     /\ (ret.name = <<>> \/ HasNul(ret.name)))
        => ret.res.kind = "panic" /\ ret.calls = 0

\* C4 amended: with aligned start and length, a path with an embedded null
\* byte is rejected (panic on the unwrap of CString::new) before any control
\* call; an empty path is not rejected: the SC_ADD control call is issued
\* with the empty C string.
C4_Amended ==
    (ret.op = "add" /\ Mult512(ret.start) /\ Mult512(ret.length)) =>
        /\ HasNul(ret.name) =>
              ret.res.kind = "panic" /\ ret.res.msg = "unwrap: NulError" /\ ret.calls = 0
        /\ ret.name = <<>> =>
              ret.calls = 1 /\ lastcall.cmd = SC_ADD /\ lastcall.arg.sr_name = <<0>>

C4_Witness ==
    /\ ret.op = "add" /\ Mult512(ret.start) /\ Mult512(ret.length)
    /\ HasNul(ret.name)
    /\ ret.res.kind = "panic" /\ ret.calls = 0

\* C5: swapctl_cmd forwards a command code to the kernel exactly when the
\* code is one of 1..5.
C5_OnlyDefinedCodesForwarded ==
    ret.op = "cmd" => (ret.calls = 1 <=> ret.cmd \in SC_ADD..SC_AINFO)

\* C6: when the control call returns -1, swapctl_get_num_devices returns a
\* failure carrying the platform's last error code; no panic, no count.
C6_CountFailureSurfaced ==
    (ret.op = "get_num_devices" /\ ret.kres = -1)
        => /\ ret.res.kind = "err"
           /\ ret.res.errno = errno
           /\ errno \in Errnos

C6_Witness ==
    /\ ret.op = "get_num_devices" /\ ret.calls = 1 /\ ret.kres = -1
    /\ ret.res = Err("ENOMEM")

\* C7 as stated: swapctl_cmd fails exactly when the control call returned
\* -1, and for every other returned value succeeds with that same value.
C7_Original ==
    (ret.op = "cmd" /\ ret.calls = 1) =>
        /\ ret.res.kind = "err" <=> ret.kres = -1
        /\ ret.kres # -1 => ret.res.kind = "ok" /\ U32Equals(ret.res.val, ret.kres)

\* C7 amended: swapctl_cmd fails exactly when the control call returned -1;
\* for every other returned value r it succeeds, with the value r when
\* r >= 0 and with the value r + 2^32 when r <= -2.
C7_Amended ==
    (ret.op = "cmd" /\ ret.calls = 1) =>
        /\ ret.res.kind = "err" <=> ret.kres = -1
        /\ ret.kres # -1 =>
              /\ ret.res.kind = "ok"
              /\ IF ret.kres >= 0 THEN U32Equals(ret.res.val, ret.kres)
                 ELSE U32EqualsWrapped(ret.res.val, ret.kres)

C7_Witness ==
    /\ ret.op = "cmd" /\ ret.calls = 1
    /\ ret.kres = -2
    /\ ret.res = Ok(U32(Half - 1, Half - 2))

\* the area the latest add asked for
RequestedArea == [sr_name |-> ret.name, sr_start |-> ret.start, sr_length |-> ret.length]

\* C8: an add of an area that an earlier add has made active is failed by
\* the kernel, swapctl_add returns that failure, and the set of active
\* areas is as it was before the call.
C8_ReAddFails ==
    (ret.op = "add" /\ ret.calls = 1 /\ RequestedArea \in ret.before)
        => /\ ret.kres = -1
           /\ ret.res = Err("EEXIST")
           /\ swapfiles = ret.before

C8_Witness ==
    /\ ret.op = "add" /\ ret.calls = 1 /\ ncalls = 2
    /\ RequestedArea \in ret.before
    /\ RequestedArea \notin SysAreas(MaxDevices)
    /\ ret.res.kind = "err"

\* main: the SC_LIST control call was the latest one and it failed
ListFailed == ~lastcall.none /\ lastcall.cmd = SC_LIST /\ lastcall.res = -1

\* C9 as stated: a failed list does not abort main.
C9_Original == ListFailed => pc # "panicked"

\* C9 amended: when the list fails after the count was obtained, main has
\* printed the count and then panics on the unwrap, the panic carrying the
\* failure; nothing more is printed and no entry is read.
C9_Amended ==
    ListFailed =>
        /\ pc = "panicked"
        /\ Len(out) = 2
        /\ out[1].tag = "getnswp" /\ out[1].val = r
        /\ out[2].tag = "panic" /\ out[2].val = Err(errno)
        /\ derefs = {}

C9_Witness == ListFailed /\ pc = "panicked" /\ Len(out) = 2 /\ r = 3

\* C10: every read through a descriptor's ste_path pointer is of a buffer
\* that is still live.
C10_PathBuffersLiveWhenRead == \A d \in derefs : d.live

====
